---- MODULE Spec2Model ----
(***************************************************************************)
(* Session claims of supertokens-python: PrimitiveClaim, its validator     *)
(* factory and the two validators HasValueSCV and HasFreshValueSCV         *)
(* (recipe/session/claim_base_classes/primitive_claim.py).                 *)
(*                                                                         *)
(* Python values are tagged records, so that values of different Python    *)
(* types are different values and Python's own ==, truthiness and `or`     *)
(* are computed the way the interpreter computes them.                     *)
(***************************************************************************)
EXTENDS Integers, FiniteSets, Sequences, TLC

VARIABLES payload, now, claim, cfg, hv, fv, ret, fetchable, maxT, prior, peer, peerRet

vars == <<payload, now, claim, cfg, hv, fv, ret, fetchable, maxT, prior, peer, peerRet>>

(***************************************************************************)
(* Bounds of the model.                                                    *)
(***************************************************************************)
\* the clock stops advancing at this reading (milliseconds)
MaxClock == 2500
\* the largest max_age_in_sec a validator is built with (seconds)
MaxAgeInSec == 2

\* the clock advances by one of these amounts (milliseconds)
ClockSteps == {500, 1000}

(***************************************************************************)
(* Python values.                                                          *)
(***************************************************************************)
None_ == [type |-> "NoneType"]
PyBool(b) == [type |-> "bool", b |-> b]
PyInt(i) == [type |-> "int", i |-> i]
PyStr(s) == [type |-> "str", s |-> s]
PyDict(d) == [type |-> "dict", d |-> d]

\* the empty dict {} of payload.get(key, {})
EmptyDict == PyDict(<<>>)

\* JSONPrimitive values the model writes and expects
JSONPrimitives ==
    {None_, PyBool(TRUE), PyBool(FALSE), PyInt(0), PyInt(1), PyStr(""), PyStr("1")}

\* x is None
IsNone(x) == x.type = "NoneType"

\* bool is a subclass of int: True is 1 and False is 0 in a comparison
IsNumber(x) == x.type \in {"bool", "int"}

AsInt(x) == IF x.type = "bool" THEN (IF x.b THEN 1 ELSE 0) ELSE x.i

\* Python's a == b on None, bool, int and str
PyEq(a, b) ==
    IF IsNumber(a) /\ IsNumber(b) THEN AsInt(a) = AsInt(b)
    ELSE IF a.type = b.type THEN a = b
    ELSE FALSE

\* Python's truth value of x
Truthy(x) ==
    CASE x.type = "NoneType" -> FALSE
      [] x.type = "bool" -> x.b
      [] x.type = "int" -> x.i # 0
      [] x.type = "str" -> x.s # ""
      [] x.type = "dict" -> DOMAIN x.d # {}

\* Python's a or b
PyOr(a, b) == IF Truthy(a) THEN a ELSE b

(***************************************************************************)
(* Outcome of a call: it returns a value or raises an exception.           *)
(***************************************************************************)
Return(v) == [returned |-> v]
Raise(e) == [raised |-> e]
Returned(r) == "returned" \in DOMAIN r
Raised(r) == "raised" \in DOMAIN r

\* dict.get(name) on the object obj: None has no attribute get
DictGet(obj, name) ==
    IF obj.type # "dict" THEN Raise("AttributeError")
    ELSE IF name \in DOMAIN obj.d THEN Return(obj.d[name])
    ELSE Return(None_)

\* payload.get(key, {})
PayloadGet(p, key) == IF key \in DOMAIN p THEN p[key] ELSE EmptyDict

(***************************************************************************)
(* PrimitiveClaim                                                          *)
(***************************************************************************)
get_value_from_payload(self, p) == DictGet(PayloadGet(p, self.key), "v")

get_last_refetch_time(self, p) == DictGet(PayloadGet(p, self.key), "t")

\* a writer that stores a falsy value as null:  {"v": value or None, ...}
add_to_payload_dropping_falsy(self, p, value, clock) ==
    Return(PyDict((self.key :> PyDict([v |-> PyOr(value, None_), t |-> PyInt(clock)])) @@ p))

\* a writer that gives a null value no timestamp:
\*   {"v": value, "t": get_timestamp_ms() if value is not None else 0}
add_to_payload_untimed_null(self, p, value, clock) ==
    Return(PyDict((self.key :> PyDict([v |-> value,
                                       t |-> IF IsNone(value) THEN PyInt(0)
                                             ELSE PyInt(clock)])) @@ p))

\* a writer that stores the bare value:  payload[self.key] = value
add_to_payload_bare_value(self, p, value, clock) ==
    Return(PyDict((self.key :> value) @@ p))

add_to_payload_(self, p, value, clock) ==
    Return(PyDict((self.key :> PyDict([v |-> value, t |-> PyInt(clock)])) @@ p))

\* a soft delete that leaves only the merge patch:
\*   payload.clear(); payload[self.key] = None
remove_from_payload_by_merge_clearing(self, p) ==
    Return(PyDict(self.key :> None_))

remove_from_payload_by_merge_(self, p) ==
    Return(PyDict((self.key :> None_) @@ p))

\* a hard delete that leaves a tombstone:  payload[self.key] = None
remove_from_payload_leaving_tombstone(self, p) ==
    IF self.key \in DOMAIN p
    THEN Return(PyDict((self.key :> None_) @@ p))
    ELSE Raise("KeyError")

\* a hard delete that tolerates a missing key:  payload.pop(self.key, None)
remove_from_payload_ignoring_missing(self, p) ==
    Return(PyDict([k \in DOMAIN p \ {self.key} |-> p[k]]))

remove_from_payload(self, p) ==
    IF self.key \in DOMAIN p
    THEN Return(PyDict([k \in DOMAIN p \ {self.key} |-> p[k]]))
    ELSE Raise("KeyError")

(***************************************************************************)
(* Validators.  A validator object holds id, claim and params.             *)
(***************************************************************************)
HasValueSCV(id_, claim_, params) ==
    [cls |-> "HasValueSCV", id |-> id_, claim |-> claim_, params |-> params]

HasFreshValueSCV(id_, claim_, params) ==
    [cls |-> "HasFreshValueSCV", id |-> id_, claim |-> claim_, params |-> params]

\* a ValidationResult
Valid == [isValid |-> TRUE]
Invalid(reason) == [isValid |-> FALSE, reason |-> reason]

\* the float n / 1000 of an integer n, kept exactly as its thousandths
DivBy1000(n) == [type |-> "float", thousandths |-> n]

\* float > int
FloatGtInt(f, i) == f.thousandths > i * 1000

\* obj[name] on a Python object
Subscript(obj, name) ==
    IF obj.type # "dict" THEN Raise("TypeError")
    ELSE IF name \in DOMAIN obj.d THEN Return(obj.d[name])
    ELSE Raise("KeyError")

\* a pre-check that looks for the key instead of the value:
\*   self.claim.key not in payload
HasValueSCV_should_refetch_by_key(self, p) ==
    Return(PyBool(self.claim.key \notin DOMAIN p))

HasValueSCV_should_refetch(self, p) ==
    LET claim_val == get_value_from_payload(self.claim, p)
    IN  IF Raised(claim_val) THEN claim_val
        ELSE Return(PyBool(IsNone(claim_val.returned)))

HasValueSCV_validate(self, p) ==
    LET val == self.params.val
        claim_val == get_value_from_payload(self.claim, p)
    IN  IF Raised(claim_val) THEN claim_val
        ELSE IF PyEq(claim_val.returned, val) THEN Return(Valid)
        ELSE Return(Invalid([message |-> "wrong value",
                             expectedValue |-> val,
                             actualValue |-> claim_val.returned]))

\* a pre-check that forgets the age of the value and looks at its presence only
HasFreshValueSCV_should_refetch_ignoring_age(self, p, clock) ==
    LET claim_val == get_value_from_payload(self.claim, p)
    IN  IF Raised(claim_val) THEN claim_val
        ELSE Return(PyBool(IsNone(claim_val.returned)))

HasFreshValueSCV_should_refetch(self, p, clock) ==
    LET max_age_in_sec == self.params.max_age_in_sec
        claim_val == get_value_from_payload(self.claim, p)
        entry == Subscript(PyDict(p), self.claim.key)
        t == IF Raised(entry) THEN entry ELSE Subscript(entry.returned, "t")
    IN  IF Raised(claim_val) THEN claim_val
        ELSE IF IsNone(claim_val.returned) THEN Return(PyBool(TRUE))
        ELSE IF Raised(t) THEN t
        ELSE IF ~IsNumber(t.returned) THEN Raise("TypeError")
        ELSE Return(PyBool(AsInt(t.returned) < clock - max_age_in_sec * 1000))

\* a validation that expires the value at the boundary:
\*   age_in_sec >= max_age_in_sec
HasFreshValueSCV_validate_expiring_at_boundary(self, p, clock) ==
    LET val == self.params.val
        max_age_in_sec == self.params.max_age_in_sec
        claim_val == get_value_from_payload(self.claim, p)
        last == get_last_refetch_time(self.claim, p)
        t == PyOr(last.returned, PyInt(0))
        age_in_sec == DivBy1000(clock - AsInt(t))
    IN  IF Raised(claim_val) THEN claim_val
        ELSE IF IsNone(claim_val.returned)
        THEN Return(Invalid([message |-> "value does not exist",
                             expectedValue |-> val,
                             actualValue |-> claim_val.returned]))
        ELSE IF self.claim.cls # "PrimitiveClaim" THEN Raise("AssertionError")
        ELSE IF Raised(last) THEN last
        ELSE IF ~IsNumber(t) THEN Raise("TypeError")
        ELSE IF age_in_sec.thousandths >= max_age_in_sec * 1000
        THEN Return(Invalid([message |-> "expired",
                             ageInSeconds |-> age_in_sec,
                             maxAgeInSeconds |-> max_age_in_sec]))
        ELSE IF ~PyEq(claim_val.returned, val)
        THEN Return(Invalid([message |-> "wrong value",
                             expectedValue |-> val,
                             actualValue |-> claim_val.returned]))
        ELSE Return(Valid)

HasFreshValueSCV_validate(self, p, clock) ==
    LET val == self.params.val
        max_age_in_sec == self.params.max_age_in_sec
        claim_val == get_value_from_payload(self.claim, p)
        last == get_last_refetch_time(self.claim, p)
        t == PyOr(last.returned, PyInt(0))
        age_in_sec == DivBy1000(clock - AsInt(t))
    IN  IF Raised(claim_val) THEN claim_val
        ELSE IF IsNone(claim_val.returned)
        THEN Return(Invalid([message |-> "value does not exist",
                             expectedValue |-> val,
                             actualValue |-> claim_val.returned]))
        ELSE IF self.claim.cls # "PrimitiveClaim" THEN Raise("AssertionError")
        ELSE IF Raised(last) THEN last
        ELSE IF ~IsNumber(t) THEN Raise("TypeError")
        ELSE IF FloatGtInt(age_in_sec, max_age_in_sec)
        THEN Return(Invalid([message |-> "expired",
                             ageInSeconds |-> age_in_sec,
                             maxAgeInSeconds |-> max_age_in_sec]))
        ELSE IF ~PyEq(claim_val.returned, val)
        THEN Return(Invalid([message |-> "wrong value",
                             expectedValue |-> val,
                             actualValue |-> claim_val.returned]))
        ELSE Return(Valid)

(***************************************************************************)
(* PrimitiveClaimValidators: the validator factory of a claim.             *)
(***************************************************************************)
has_value(claim_, val, id_) ==
    HasValueSCV(PyOr(id_, PyStr(claim_.key)), claim_, [val |-> val])

has_fresh_value(claim_, val, max_age_in_sec, id_) ==
    HasFreshValueSCV(PyOr(id_, PyStr(claim_.key \o "-fresh-val")), claim_,
                     [val |-> val, max_age_in_sec |-> max_age_in_sec])

(***************************************************************************)
(* The state machine.  One claim and the two validators built from it by   *)
(* the factory are shared by the session checks; each check owns a         *)
(* payload.  payload is the payload of the check under observation and ret *)
(* its last call: the name, the clock reading it ran at, the value         *)
(* argument and the outcome.  peer is the payload of a second check that   *)
(* runs at the same time and peerRet its last call.  fetchable is the      *)
(* range of the application's fetch_value, whose results add_to_payload_   *)
(* stores.  maxT is the largest t add_to_payload_ has stored so far under  *)
(* the claim's key of payload (-1 before the first write), and prior what  *)
(* the last call found when it began: the largest t stored until then and  *)
(* what stood under the key.                                               *)
(***************************************************************************)
\* the claim's key and the key of an unrelated entry of the payload
ClaimKey == "k"
OtherKey == "other"

\* the claim is a PrimitiveClaim, or another SessionClaim storing {v, t}
ClaimClasses == {"PrimitiveClaim", "SessionClaim"}

\* ids handed to the factory: none, the empty string, a name
Ids == {None_, PyStr(""), PyStr("myid")}

\* arguments the factory is called with: every expected value and max age
\* with the default id, and the explicit ids with one expected value
Configs ==
    [val : JSONPrimitives, max_age_in_sec : 0..MaxAgeInSec, id_ : {None_}]
        \cup [val : {PyInt(1)}, max_age_in_sec : {1}, id_ : Ids]

\* the payload a session starts with: empty, or holding another claim's entry
InitialPayloads ==
    {<<>>, OtherKey :> PyDict([v |-> PyStr("admin"), t |-> PyInt(0)])}

\* payloads whose entry under the claim's key is neither null nor a full
\* {v, t} record: v missing, t missing, a bare primitive
MalformedPayloads ==
    {ClaimKey :> PyDict([t |-> PyInt(0)]),
     ClaimKey :> PyDict([v |-> PyInt(1)]),
     ClaimKey :> PyInt(1),
     ClaimKey :> PyStr("1")}

\* what stands under key in p: nothing, the null tombstone, an entry
EntryKind(p, key) ==
    IF key \notin DOMAIN p THEN "absent"
    ELSE IF p[key] = None_ THEN "tombstone"
    ELSE "entry"

\* what a call finds when it begins
Found == [t |-> maxT, entry |-> EntryKind(payload, claim.key)]

\* before the first call
NoPrior == [t |-> -1, entry |-> "absent"]

Call(op, arg, out) == [op |-> op, at |-> now, arg |-> arg, out |-> out]

NoCall == [op |-> "init", at |-> 0, arg |-> None_, out |-> Return(None_)]

\* the state after construction of the claim and its validators
Setup(payloads, classes, configs, values) ==
    /\ payload \in payloads
    /\ now = 0
    /\ claim \in [cls : classes, key : {ClaimKey}]
    /\ cfg \in configs
    /\ claim.cls = "PrimitiveClaim" \/ (cfg.val = PyInt(1) /\ IsNone(cfg.id_))
    /\ hv = has_value(claim, cfg.val, cfg.id_)
    /\ fv = has_fresh_value(claim, cfg.val, cfg.max_age_in_sec, cfg.id_)
    /\ ret = NoCall
    /\ fetchable = values
    /\ maxT = -1
    /\ prior = NoPrior
    /\ peer = <<>>
    /\ peerRet = NoCall

Init == Setup(InitialPayloads, ClaimClasses, Configs, JSONPrimitives)

\* a lookup that inserts the default:  payload.setdefault(key, {})
PayloadAfterSetdefault(p, key) ==
    IF key \in DOMAIN p THEN p ELSE (key :> EmptyDict) @@ p

\* the payload after payload.get(key, {}): get does not insert the default
PayloadAfterGet(p, key) == p

\* the t of the {v, t} record a writer left under key, -1 if it left none
WrittenT(out, key) ==
    LET entry == Subscript(out.returned, key)
        t == Subscript(entry.returned, "t")
    IN  IF Raised(out) \/ Raised(entry) THEN -1
        ELSE IF Raised(t) THEN -1
        ELSE IF ~IsNumber(t.returned) THEN -1
        ELSE AsInt(t.returned)

Max(a, b) == IF a >= b THEN a ELSE b

\* a payload writer ran: the payload is mutated in place unless it raised
Written(op, arg, out) ==
    /\ payload' = IF Returned(out) THEN out.returned.d ELSE payload
    /\ ret' = Call(op, arg, out)
    /\ maxT' = IF op = "add_to_payload_" THEN Max(maxT, WrittenT(out, claim.key))
               ELSE maxT
    /\ prior' = Found
    /\ UNCHANGED <<now, claim, cfg, hv, fv, fetchable, peer, peerRet>>

\* a reader ran
Read(op, out) ==
    /\ ret' = Call(op, None_, out)
    /\ payload' = PayloadAfterGet(payload, claim.key)
    /\ prior' = Found
    /\ UNCHANGED <<now, claim, cfg, hv, fv, fetchable, maxT, peer, peerRet>>

AddToPayload ==
    \E value \in fetchable :
        Written("add_to_payload_", value, add_to_payload_(claim, payload, value, now))

RemoveFromPayloadByMerge ==
    Written("remove_from_payload_by_merge_", None_,
            remove_from_payload_by_merge_(claim, payload))

RemoveFromPayload ==
    Written("remove_from_payload", None_, remove_from_payload(claim, payload))

GetValueFromPayload ==
    Read("get_value_from_payload", get_value_from_payload(claim, payload))

GetLastRefetchTime ==
    Read("get_last_refetch_time", get_last_refetch_time(claim, payload))

HasValueShouldRefetch ==
    Read("HasValueSCV.should_refetch", HasValueSCV_should_refetch(hv, payload))

HasValueValidate ==
    Read("HasValueSCV.validate", HasValueSCV_validate(hv, payload))

HasFreshValueShouldRefetch ==
    Read("HasFreshValueSCV.should_refetch",
         HasFreshValueSCV_should_refetch(fv, payload, now))

HasFreshValueValidate ==
    Read("HasFreshValueSCV.validate", HasFreshValueSCV_validate(fv, payload, now))

\* time passes: the clock reads later.  Under Spec, SpecConcurrent and
\* SpecMalformed the reading only advances; SpecWallClock has the steps back
Tick ==
    /\ \E d \in ClockSteps : now + d <= MaxClock /\ now' = now + d
    /\ UNCHANGED <<payload, claim, cfg, hv, fv, ret, fetchable, maxT, prior, peer, peerRet>>

Next ==
    \/ AddToPayload
    \/ RemoveFromPayloadByMerge
    \/ RemoveFromPayload
    \/ GetValueFromPayload
    \/ GetLastRefetchTime
    \/ HasValueShouldRefetch
    \/ HasValueValidate
    \/ HasFreshValueShouldRefetch
    \/ HasFreshValueValidate
    \/ Tick

Spec == Init /\ [][Next]_vars

(***************************************************************************)
(* A second session check running at the same time: it calls the same      *)
(* methods of the same claim and validators on its own payload.            *)
(***************************************************************************)
\* a writer of the second check whose payload is the very object the first
\* check holds (one dict shared by the calls, as a mutable default would be)
PeerWrittenToSharedPayload(op, arg, out) ==
    /\ peer' = IF Returned(out) THEN out.returned.d ELSE peer
    /\ payload' = peer'
    /\ peerRet' = Call(op, arg, out)
    /\ UNCHANGED <<now, claim, cfg, hv, fv, ret, fetchable, maxT, prior>>

PeerWritten(op, arg, out) ==
    /\ peer' = IF Returned(out) THEN out.returned.d ELSE peer
    /\ peerRet' = Call(op, arg, out)
    /\ UNCHANGED <<payload, now, claim, cfg, hv, fv, ret, fetchable, maxT, prior>>

PeerRead(op, out) ==
    /\ peerRet' = Call(op, None_, out)
    /\ peer' = PayloadAfterGet(peer, claim.key)
    /\ UNCHANGED <<payload, now, claim, cfg, hv, fv, ret, fetchable, maxT, prior>>

PeerAddToPayload ==
    \E value \in fetchable :
        PeerWritten("add_to_payload_", value, add_to_payload_(claim, peer, value, now))

PeerRemoveFromPayloadByMerge ==
    PeerWritten("remove_from_payload_by_merge_", None_,
                remove_from_payload_by_merge_(claim, peer))

PeerRemoveFromPayload ==
    PeerWritten("remove_from_payload", None_, remove_from_payload(claim, peer))

PeerGetValueFromPayload ==
    PeerRead("get_value_from_payload", get_value_from_payload(claim, peer))

PeerGetLastRefetchTime ==
    PeerRead("get_last_refetch_time", get_last_refetch_time(claim, peer))

PeerHasValueShouldRefetch ==
    PeerRead("HasValueSCV.should_refetch", HasValueSCV_should_refetch(hv, peer))

PeerHasValueValidate ==
    PeerRead("HasValueSCV.validate", HasValueSCV_validate(hv, peer))

PeerHasFreshValueShouldRefetch ==
    PeerRead("HasFreshValueSCV.should_refetch",
             HasFreshValueSCV_should_refetch(fv, peer, now))

PeerHasFreshValueValidate ==
    PeerRead("HasFreshValueSCV.validate", HasFreshValueSCV_validate(fv, peer, now))

PeerNext ==
    \/ PeerAddToPayload
    \/ PeerRemoveFromPayloadByMerge
    \/ PeerRemoveFromPayload
    \/ PeerGetValueFromPayload
    \/ PeerGetLastRefetchTime
    \/ PeerHasValueShouldRefetch
    \/ PeerHasValueValidate
    \/ PeerHasFreshValueShouldRefetch
    \/ PeerHasFreshValueValidate

\* the validators both checks share, and the values their fetches deliver
ConcurrentConfigs ==
    [val : {PyInt(1)}, max_age_in_sec : {1}, id_ : {None_}]

InitConcurrent ==
    Setup({<<>>}, {"PrimitiveClaim"}, ConcurrentConfigs, {PyInt(1)})

NextConcurrent == Next \/ PeerNext

SpecConcurrent == InitConcurrent /\ [][NextConcurrent]_vars

(***************************************************************************)
(* A session whose stored payload arrives malformed under the claim's key. *)
(***************************************************************************)
MalformedConfigs ==
    [val : {None_, PyInt(1)}, max_age_in_sec : 1..MaxAgeInSec, id_ : {None_}]

InitMalformed ==
    Setup(MalformedPayloads, {"PrimitiveClaim"}, MalformedConfigs, JSONPrimitives)

SpecMalformed == InitMalformed /\ [][Next]_vars

(***************************************************************************)
(* The clock utility gives the current time in milliseconds since the      *)
(* epoch, the reading of the system's clock.  Nothing keeps that reading   *)
(* from going back between two calls (the clock is set or synchronised),   *)
(* and no method compares a reading with one it took before.  Here the     *)
(* clock moves both ways.                                                  *)
(***************************************************************************)
\* the system's clock is set back
ClockSetBack ==
    /\ \E d \in ClockSteps : now - d >= 0 /\ now' = now - d
    /\ UNCHANGED <<payload, claim, cfg, hv, fv, ret, fetchable, maxT, prior, peer, peerRet>>

\* one validator, and fetches that deliver a value or null
WallClockConfigs ==
    [val : {PyInt(1)}, max_age_in_sec : {1}, id_ : {None_}]

InitWallClock ==
    Setup(InitialPayloads, {"PrimitiveClaim"}, WallClockConfigs, {None_, PyInt(1)})

NextWallClock == Next \/ ClockSetBack

SpecWallClock == InitWallClock /\ [][NextWallClock]_vars

(***************************************************************************)
(* Vocabulary of the properties: what the payload holds under the claim's  *)
(* key, and which call ret records.                                        *)
(***************************************************************************)
KeyAbsent == ClaimKey \notin DOMAIN payload
Tombstone == ClaimKey \in DOMAIN payload /\ payload[ClaimKey] = None_
HasRecord ==
    /\ ClaimKey \in DOMAIN payload
    /\ payload[ClaimKey].type = "dict"
    /\ DOMAIN payload[ClaimKey].d = {"v", "t"}
StoredV == payload[ClaimKey].d.v
StoredT == payload[ClaimKey].d.t.i

\* the claim value is null or absent
ValueNullOrAbsent == KeyAbsent \/ Tombstone \/ (HasRecord /\ IsNone(StoredV))

\* two JSON primitives are strictly equal: same JSON type and same value
StrictEq(a, b) == a = b

Ran(op) == ret.op = op
Result == ret.out.returned
False_ == Return(PyBool(FALSE))
True_ == Return(PyBool(TRUE))

\* the reason of a failed validation carries this message
FailsWith(out, message) ==
    /\ Returned(out)
    /\ ~out.returned.isValid
    /\ out.returned.reason.message = message

OnPrimitiveClaim == claim.cls = "PrimitiveClaim"

(***************************************************************************)
(* C1.  validate of both validators, bound to a PrimitiveClaim, is total   *)
(* over well-formed payloads (key absent, null tombstone, {v, t} record):  *)
(* it returns a ValidationResult with an isValid field and never raises.   *)
(***************************************************************************)
C1_ValidateTotal ==
    (OnPrimitiveClaim /\ (Ran("HasValueSCV.validate") \/ Ran("HasFreshValueSCV.validate")))
        => (Returned(ret.out) /\ "isValid" \in DOMAIN Result)

(***************************************************************************)
(* C2.  After remove_from_payload_by_merge_ the claim key is still         *)
(* present, mapped to null, and get_value_from_payload on such a payload   *)
(* returns null without raising.                                           *)
(***************************************************************************)
C2_TombstoneReadsNull ==
    /\ Ran("remove_from_payload_by_merge_") => Tombstone
    /\ (Ran("get_value_from_payload") /\ Tombstone) => ret.out = Return(None_)

(***************************************************************************)
(* C3.  HasFreshValueSCV.validate decides existence, then freshness, then  *)
(* equality: "value does not exist" when the claim value is null/absent,   *)
(* else "expired" when (now - t) / 1000 > max_age_in_sec, else "wrong      *)
(* value" when the stored value differs from the expected one, else valid. *)
(***************************************************************************)
C3_FreshValidateOrder ==
    (OnPrimitiveClaim /\ Ran("HasFreshValueSCV.validate")) =>
        IF ValueNullOrAbsent THEN FailsWith(ret.out, "value does not exist")
        ELSE IF ret.at - StoredT > fv.params.max_age_in_sec * 1000
             THEN FailsWith(ret.out, "expired")
        ELSE IF ~StrictEq(StoredV, fv.params.val)
             THEN FailsWith(ret.out, "wrong value")
        ELSE ret.out = Return([isValid |-> TRUE])

(***************************************************************************)
(* C4.  should_refetch is conservative.  When HasFreshValueSCV's           *)
(* should_refetch returns false, the claim value is present, its age at    *)
(* that clock reading is at most max_age_in_sec (the boundary included),   *)
(* and validate at that reading fails neither with "value does not exist"  *)
(* nor with "expired"; when HasValueSCV's should_refetch returns false,    *)
(* the claim value is present and not null.                                *)
(***************************************************************************)
C4_ShouldRefetchConservative ==
    /\ (Ran("HasFreshValueSCV.should_refetch") /\ ret.out = False_) =>
          /\ HasRecord /\ ~IsNone(StoredV)
          /\ ret.at - StoredT <= fv.params.max_age_in_sec * 1000
          /\ ~FailsWith(HasFreshValueSCV_validate(fv, payload, ret.at),
                        "value does not exist")
          /\ ~FailsWith(HasFreshValueSCV_validate(fv, payload, ret.at), "expired")
    /\ (Ran("HasValueSCV.should_refetch") /\ ret.out = False_) =>
          (HasRecord /\ ~IsNone(StoredV))

\* should_refetch of the fresh-value validator said "fresh" exactly at the
\* boundary age == max_age_in_sec
C4_Witness ==
    /\ Ran("HasFreshValueSCV.should_refetch") /\ ret.out = False_
    /\ HasRecord
    /\ ret.at - StoredT = fv.params.max_age_in_sec * 1000

(***************************************************************************)
(* C5.  HasFreshValueSCV.should_refetch returns a boolean for every        *)
(* well-formed payload (key absent, null tombstone, {v, t} record): true   *)
(* iff the claim value is null/absent or t < now - max_age_in_sec * 1000.  *)
(***************************************************************************)
C5_FreshShouldRefetchIff ==
    Ran("HasFreshValueSCV.should_refetch") =>
        ret.out = Return(PyBool(
            \/ ValueNullOrAbsent
            \/ StoredT < ret.at - fv.params.max_age_in_sec * 1000))

(***************************************************************************)
(* C6.  HasValueSCV.validate, when it has read the claim value, returns    *)
(* isValid true iff that value strictly equals the expected one (same JSON *)
(* type and same value); on mismatch the reason is "wrong value" with the  *)
(* expected and the actual value.                                          *)
(***************************************************************************)
C6_HasValueStrictEquality ==
    (Ran("HasValueSCV.validate") /\ Returned(ret.out) /\ HasRecord) =>
        IF StrictEq(StoredV, hv.params.val)
        THEN ret.out = Return([isValid |-> TRUE])
        ELSE ret.out = Return([isValid |-> FALSE,
                               reason |-> [message |-> "wrong value",
                                           expectedValue |-> hv.params.val,
                                           actualValue |-> StoredV]])

(***************************************************************************)
(* C7.  HasValueSCV.should_refetch returns true iff the claim value is     *)
(* currently null/absent: true when the key is absent, false once a        *)
(* non-null value is stored, the falsy values false, 0 and "" included.    *)
(***************************************************************************)
C7_HasValueShouldRefetchIff ==
    Ran("HasValueSCV.should_refetch") =>
        ret.out = Return(PyBool(ValueNullOrAbsent))

(***************************************************************************)
(* C8.  Round trip of a write: after add_to_payload_(p, x) at clock        *)
(* reading c, get_value_from_payload(p) returns x, get_last_refetch_time(p)*)
(* returns c, and the call returned the payload it mutated.                *)
(***************************************************************************)
C8_WriteRoundTrip ==
    Ran("add_to_payload_") =>
        /\ get_value_from_payload(claim, payload) = Return(ret.arg)
        /\ get_last_refetch_time(claim, payload) = Return(PyInt(ret.at))
        /\ ret.out = Return(PyDict(payload))

\* a falsy value was written over an earlier entry, after the clock moved
C8_Witness ==
    /\ Ran("add_to_payload_")
    /\ ret.arg = PyBool(FALSE)
    /\ ret.at > 0
    /\ HasRecord /\ StoredV = PyBool(FALSE) /\ StoredT = ret.at

(***************************************************************************)
(* C9.  A HasFreshValueSCV bound to a claim that is not a PrimitiveClaim   *)
(* fails with the type assertion whatever the payload holds: neither       *)
(* validate nor should_refetch returns.                                    *)
(***************************************************************************)
C9_NonPrimitiveClaimIsFatal ==
    (~OnPrimitiveClaim /\ (Ran("HasFreshValueSCV.validate")
                           \/ Ran("HasFreshValueSCV.should_refetch")))
        => ret.out = Raise("AssertionError")

(***************************************************************************)
(* C10.  Ids of the factory's validators: without an id, has_value gives   *)
(* the claim's key and has_fresh_value gives key + "-fresh-val"; a         *)
(* supplied id (any string, the empty one included) is kept as it is.  The *)
(* validator keeps the claim and the given val / max_age_in_sec.           *)
(***************************************************************************)
C10_FactoryIds ==
    /\ hv.id = (IF IsNone(cfg.id_) THEN PyStr(claim.key) ELSE cfg.id_)
    /\ fv.id = (IF IsNone(cfg.id_) THEN PyStr(claim.key \o "-fresh-val") ELSE cfg.id_)
    /\ hv.claim = claim /\ fv.claim = claim
    /\ hv.params = [val |-> cfg.val]
    /\ fv.params = [val |-> cfg.val, max_age_in_sec |-> cfg.max_age_in_sec]

(***************************************************************************)
(* C11.  Hard delete: remove_from_payload on a payload whose claim key is  *)
(* present (a {v, t} record or the null tombstone) leaves the key absent   *)
(* from the mapping, which is not the payload remove_from_payload_by_merge_*)
(* leaves; get_value_from_payload and get_last_refetch_time then both      *)
(* return null.                                                            *)
(***************************************************************************)
C11_HardDelete ==
    [][(RemoveFromPayload /\ ClaimKey \in DOMAIN payload) =>
          /\ ret'.out = Return(PyDict(payload'))
          /\ ClaimKey \notin DOMAIN payload'
          /\ payload' # remove_from_payload_by_merge_(claim, payload).returned.d
          /\ get_value_from_payload(claim, payload') = Return(None_)
          /\ get_last_refetch_time(claim, payload') = Return(None_)]_vars

\* a hard delete succeeded after the claim had been written
C11_Witness ==
    /\ Ran("remove_from_payload") /\ Returned(ret.out)
    /\ KeyAbsent
    /\ ret.at > 0

(***************************************************************************)
(* C12.  remove_from_payload on a payload without the claim key fails with *)
(* a lookup error and leaves the payload unchanged; a second               *)
(* remove_from_payload in a row always fails.                              *)
(***************************************************************************)
C12_RemoveMissingKeyFails ==
    [][/\ (RemoveFromPayload /\ ClaimKey \notin DOMAIN payload) =>
              (ret'.out = Raise("KeyError") /\ payload' = payload)
       /\ (RemoveFromPayload /\ Ran("remove_from_payload")) =>
              (ret'.out = Raise("KeyError") /\ payload' = payload)]_vars

\* the second of two removals in a row failed after time had passed
C12_Witness ==
    /\ Ran("remove_from_payload") /\ ret.out = Raise("KeyError")
    /\ KeyAbsent
    /\ ret.at > 0

(***************************************************************************)
(* C13.  Payload shape: after any sequence of add_to_payload_,             *)
(* remove_from_payload_by_merge_ and remove_from_payload the claim key is  *)
(* absent, mapped to null, or mapped to a record with exactly the fields   *)
(* v (a JSON primitive) and t (an integer of milliseconds).                *)
(***************************************************************************)
C13_PayloadShape ==
    \/ KeyAbsent
    \/ Tombstone
    \/ /\ HasRecord
       /\ StoredV.type \in {"NoneType", "bool", "int", "str"}
       /\ payload[ClaimKey].d.t.type = "int"

\* a record holding the empty string, written after the clock had moved
C13_Witness ==
    /\ Ran("add_to_payload_")
    /\ HasRecord /\ StoredT > 0 /\ StoredV = PyStr("")

(***************************************************************************)
(* C14.  Within one payload's lifetime the t stored under the claim's key  *)
(* never decreases across writes: every add_to_payload_ stores a t that is *)
(* at least the t of every earlier add_to_payload_ on that payload, also   *)
(* when a tombstone or a hard delete came in between.                      *)
(***************************************************************************)
C14_TimestampsNonDecreasing ==
    [][AddToPayload => (HasRecord' /\ StoredT' >= maxT /\ maxT' = StoredT')]_vars

(***************************************************************************)
(* C14, as the code has it.  add_to_payload_ stores the reading of the     *)
(* clock and compares it with nothing, so the stored t follows the clock:  *)
(* a write made at a reading not below the t of any earlier add_to_payload_*)
(* on that payload stores a t that is at least each of them, also when a   *)
(* tombstone or a hard delete came in between; a write made after the      *)
(* clock was set back below an earlier t stores the smaller t.             *)
(***************************************************************************)
C14_TimestampsFollowClock ==
    [][AddToPayload =>
          /\ HasRecord'
          /\ now >= maxT => (StoredT' >= maxT /\ maxT' = StoredT')
          /\ now < maxT => (StoredT' < maxT /\ maxT' = maxT)]_vars

\* a value written again over the tombstone of an earlier write, at a later
\* reading of the clock: its t is above every t stored before
C14_Witness ==
    /\ Ran("add_to_payload_")
    /\ prior.entry = "tombstone" /\ prior.t >= 0
    /\ HasRecord /\ StoredT > prior.t /\ StoredT = maxT

(***************************************************************************)
(* C15.  Reads are pure: get_value_from_payload, get_last_refetch_time,    *)
(* should_refetch and validate leave the payload as it was, so a second    *)
(* get_value_from_payload with no write in between returns what the first *)
(* returned.                                                               *)
(***************************************************************************)
ReadStep ==
    \/ GetValueFromPayload
    \/ GetLastRefetchTime
    \/ HasValueShouldRefetch
    \/ HasValueValidate
    \/ HasFreshValueShouldRefetch
    \/ HasFreshValueValidate

C15_ReadsArePure ==
    [][/\ ReadStep => payload' = payload
       /\ (GetValueFromPayload /\ Ran("get_value_from_payload")) =>
              ret'.out = ret.out]_vars

\* get_value_from_payload read a stored value on a payload that also holds
\* another claim's entry, after the clock had moved
C15_Witness ==
    /\ Ran("get_value_from_payload")
    /\ ret.out = Return(PyInt(0))
    /\ OtherKey \in DOMAIN payload
    /\ ret.at > StoredT

(***************************************************************************)
(* C16.  Two session checks that share the claim and its validators and    *)
(* own their payloads do not interfere.  Under every interleaving no step  *)
(* writes a field of the claim or of a validator (key, id, params and      *)
(* claim reference stay as constructed), a step of one check leaves the    *)
(* other check's payload and last result alone, and what a check has read  *)
(* is what the call gives on its own payload at the clock reading of the   *)
(* call, as if the check ran alone.                                        *)
(***************************************************************************)
\* the last read of the observed check is the result of the call on its own
\* payload, with the validators as the factory built them
AsIfAlone ==
    LET hv0 == has_value(claim, cfg.val, cfg.id_)
        fv0 == has_fresh_value(claim, cfg.val, cfg.max_age_in_sec, cfg.id_)
    IN  /\ Ran("get_value_from_payload") =>
              ret.out = get_value_from_payload(claim, payload)
        /\ Ran("get_last_refetch_time") =>
              ret.out = get_last_refetch_time(claim, payload)
        /\ Ran("HasValueSCV.should_refetch") =>
              ret.out = HasValueSCV_should_refetch(hv0, payload)
        /\ Ran("HasValueSCV.validate") =>
              ret.out = HasValueSCV_validate(hv0, payload)
        /\ Ran("HasFreshValueSCV.should_refetch") =>
              ret.out = HasFreshValueSCV_should_refetch(fv0, payload, ret.at)
        /\ Ran("HasFreshValueSCV.validate") =>
              ret.out = HasFreshValueSCV_validate(fv0, payload, ret.at)
        /\ (Ran("add_to_payload_") \/ Ran("remove_from_payload_by_merge_")) =>
              ret.out = Return(PyDict(payload))

C16_NoInterference ==
    /\ [][/\ claim' = claim /\ hv' = hv /\ fv' = fv
          /\ PeerNext => (payload' = payload /\ ret' = ret)
          /\ Next => (peer' = peer /\ peerRet' = peerRet)]_vars
    /\ []AsIfAlone

\* both checks have written and then read: the observed one validated its
\* own value while the other holds a tombstone written later
C16_Witness ==
    /\ Ran("HasFreshValueSCV.validate") /\ ret.out = Return([isValid |-> TRUE])
    /\ peerRet.op = "remove_from_payload_by_merge_"
    /\ peerRet.at > ret.at
    /\ HasRecord
    /\ ClaimKey \in DOMAIN peer /\ peer[ClaimKey] = None_

(***************************************************************************)
(* C17.  A malformed payload, whose claim key maps to something that is    *)
(* neither null nor a full {v, t} record (v missing, t missing, a bare     *)
(* primitive), is surfaced as an error by get_value_from_payload,          *)
(* get_last_refetch_time, should_refetch and validate: none of them        *)
(* returns a null or a verdict for it.                                     *)
(***************************************************************************)
Malformed ==
    /\ ClaimKey \in DOMAIN payload
    /\ payload[ClaimKey] # None_
    /\ ~HasRecord

C17_MalformedIsDecodeError ==
    (Malformed /\ (\/ Ran("get_value_from_payload")
                   \/ Ran("get_last_refetch_time")
                   \/ Ran("HasValueSCV.should_refetch")
                   \/ Ran("HasValueSCV.validate")
                   \/ Ran("HasFreshValueSCV.should_refetch")
                   \/ Ran("HasFreshValueSCV.validate")))
        => Raised(ret.out)

(***************************************************************************)
(* C18.  Freshness window after a write.  With a clock that never goes     *)
(* back and max_age_in_sec >= 0: after add_to_payload_ stored a non-null v *)
(* at clock reading t0, and until the next write or removal,               *)
(* HasFreshValueSCV's should_refetch is false and validate with expected   *)
(* value v is valid at every reading now with                              *)
(* now - t0 <= max_age_in_sec * 1000; at every later reading               *)
(* should_refetch is true and validate fails with "expired".  The next     *)
(* add_to_payload_ makes should_refetch false again.                       *)
(***************************************************************************)
C18_FreshnessWindow ==
    (OnPrimitiveClaim /\ HasRecord /\ ~IsNone(StoredV)) =>
        LET inWindow == ret.at - StoredT <= fv.params.max_age_in_sec * 1000
        IN  /\ ret.at >= StoredT
            /\ Ran("HasFreshValueSCV.should_refetch") =>
                  ret.out = (IF inWindow THEN False_ ELSE True_)
            /\ (Ran("HasFreshValueSCV.validate") /\ inWindow
                    /\ StoredV = fv.params.val) =>
                  ret.out = Return([isValid |-> TRUE])
            /\ (Ran("HasFreshValueSCV.validate") /\ ~inWindow) =>
                  FailsWith(ret.out, "expired")
            /\ Ran("add_to_payload_") =>
                  HasFreshValueSCV_should_refetch(fv, payload, ret.at) = False_

\* a value written after the clock had moved, validated past its window:
\* it equals the expected value and yet is reported expired
C18_Witness ==
    /\ OnPrimitiveClaim
    /\ Ran("HasFreshValueSCV.validate") /\ FailsWith(ret.out, "expired")
    /\ HasRecord /\ StoredV = fv.params.val
    /\ StoredT > 0

(***************************************************************************)
(* C19.  Frame of the payload writers: add_to_payload_,                    *)
(* remove_from_payload_by_merge_ and remove_from_payload of the claim with *)
(* key k change only the entry under k; every other key of the payload     *)
(* keeps its presence and its value.                                       *)
(***************************************************************************)
WriteStep == AddToPayload \/ RemoveFromPayloadByMerge \/ RemoveFromPayload

C19_WritersFrame ==
    [][WriteStep =>
          \A key \in (DOMAIN payload \cup DOMAIN payload') \ {ClaimKey} :
              /\ key \in DOMAIN payload
              /\ key \in DOMAIN payload'
              /\ payload'[key] = payload[key]]_vars

\* the claim was written and tombstoned beside another claim's entry
C19_Witness ==
    /\ Ran("remove_from_payload_by_merge_")
    /\ Tombstone
    /\ OtherKey \in DOMAIN payload
    /\ maxT >= 0

(***************************************************************************)
(* C20.  A stored null is treated as an absent claim: after                *)
(* add_to_payload_(p, null) the payload holds a {v: null, t} record, yet   *)
(* should_refetch of both validators returns true and                      *)
(* HasFreshValueSCV.validate fails with "value does not exist", whatever t *)
(* is.  So a claim whose fetch keeps returning null has should_refetch     *)
(* true after every refetch and never becomes fresh.                       *)
(***************************************************************************)
C20_StoredNullIsAbsent ==
    /\ (Ran("add_to_payload_") /\ IsNone(ret.arg)) =>
          /\ HasRecord /\ IsNone(StoredV) /\ StoredT = ret.at
          /\ HasValueSCV_should_refetch(hv, payload) = True_
          /\ HasFreshValueSCV_should_refetch(fv, payload, ret.at) = True_
    /\ (HasRecord /\ IsNone(StoredV)) =>
          /\ Ran("HasValueSCV.should_refetch") => ret.out = True_
          /\ Ran("HasFreshValueSCV.should_refetch") => ret.out = True_
          /\ Ran("HasFreshValueSCV.validate") =>
                FailsWith(ret.out, "value does not exist")

\* a null refetched again later, and validated at the very reading of the write
C20_Witness ==
    /\ Ran("HasFreshValueSCV.validate")
    /\ FailsWith(ret.out, "value does not exist")
    /\ HasRecord /\ IsNone(StoredV)
    /\ StoredT = ret.at /\ StoredT > 0

====
